---------------------------- MODULE Spec2Model ----------------------------
(***************************************************************************)
(* Model of the lead-capture front end: App (owner of the lead sequence),  *)
(* LeadForm (draft, submit handler, scoring request, success toast) and    *)
(* LeadsTable (score tag, CSV export, export toast).                       *)
(*                                                                         *)
(* JavaScript values that may be a number, null or undefined are tagged    *)
(* tuples: <<"num", n>>, <<"null">>, <<"undefined">>, and a string cell of *)
(* a CSV row is <<"str", s>>.  Form fields hold what e.target.value or     *)
(* e.target.checked delivers: strings, and a boolean for consent.          *)
(***************************************************************************)
EXTENDS Integers, Sequences, FiniteSets, TLC

VARIABLES
    leads,        \* App: useState([])                       App.jsx:6
    formData,     \* LeadForm: the draft                      part_000:16
    formToast,    \* LeadForm: showToast                      part_000:29
    formTimers,   \* LeadForm: setTimeout callbacks pending   part_000:54
    inflight,     \* axios.post calls awaiting their response part_000:40
    nextId,       \* number of the next scoring request
    tableToast,   \* LeadsTable: showToast                    part_000:279
    tableTimers,  \* LeadsTable: setTimeout callbacks pending part_000:321
    download,     \* the file handed to the browser by the last export
    alertMsg,     \* the message of the last alert() call
    scored,       \* history: the scoring calls that returned scores, in order
    tagScore,     \* input of getScoreTag under SpecScoreTag
    tagShown      \* text rendered by getScoreTag under SpecScoreTag

vars == <<leads, formData, formToast, formTimers, inflight, nextId,
          tableToast, tableTimers, download, alertMsg, scored,
          tagScore, tagShown>>

appVars == <<leads, formData, formToast, formTimers, inflight, nextId,
             tableToast, tableTimers, download, alertMsg, scored>>

tagVars == <<tagScore, tagShown>>

-----------------------------------------------------------------------------
(* Bounds of the model *)

\* scoring requests started in one run
MaxSubmits == 2

\* export toasts whose timer is still pending
MaxTimers == 2

\* scores given to getScoreTag range over -MaxScoreMag .. MaxScoreMag
MaxScoreMag == 110

-----------------------------------------------------------------------------
(* JavaScript values *)

Num(n) == <<"num", n>>

Null == <<"null">>

Undefined == <<"undefined">>

Str(s) == <<"str", s>>

IsNullish(v) == v = Null \/ v = Undefined

\* a ?? b
NullishOr(v, d) == IF IsNullish(v) THEN d ELSE v

\* the string Array.prototype.join makes of one element
JoinCell(v) ==
    CASE v[1] = "str" -> v[2]
      [] v[1] = "num" -> ToString(v[2])
      [] OTHER -> ""

RECURSIVE JoinRow(_)
\* row.join(",")
JoinRow(row) ==
    IF Len(row) = 0 THEN ""
    ELSE IF Len(row) = 1 THEN JoinCell(row[1])
    ELSE JoinCell(row[1]) \o "," \o JoinRow(Tail(row))

RECURSIVE JoinLines(_)
\* lines.join("\n"), every element already a string
JoinLines(lines) ==
    IF Len(lines) = 0 THEN ""
    ELSE IF Len(lines) = 1 THEN lines[1]
    ELSE lines[1] \o "\n" \o JoinLines(Tail(lines))

-----------------------------------------------------------------------------
(* LeadForm *)

\* the draft of useState, and of the reset after a successful submit
EmptyForm ==
    [phone |-> "", email |-> "", creditScore |-> "", ageGroup |-> "",
     maritalStatus |-> "", comments |-> "", consent |-> FALSE,
     annualIncome |-> "", netWorth |-> "", employmentStatus |-> ""]

\* the onChange events of the inputs that the model fires: <<field, value>>
FieldInputs ==
    { <<"phone", "A">>, <<"consent", TRUE>>, <<"consent", FALSE>> }

\* setFormData({ ...formData, [name]: value })
SetField(data, name, value) == [data EXCEPT ![name] = value]

\* response.data of a 2xx answer: an object, or the JSON value null
Body(i, r) == <<"obj", [initialScore |-> i, rerankedScore |-> r]>>

NullBody == <<"null">>

\* what the awaited axios.post settles with: <<"ok", response.data>> or a
\* rejection (network error, non-2xx status)
Outcomes ==
    { <<"ok", Body(Num(80), Null)>>,
      <<"ok", Body(Undefined, Num(0))>>,
      <<"ok", NullBody>>,
      <<"error", <<"network">>>>,
      <<"error", <<"status">>>> }

\* const { initialScore, rerankedScore } = response.data throws on null
DestructureThrows(body) == body[1] # "obj"

\* NewLead with the two scores taken from each other's field
NewLeadSwapped(data, body) ==
    [initialScore |-> body[2].rerankedScore,
     rerankedScore |-> body[2].initialScore] @@ data

\* { ...formData, initialScore, rerankedScore }
NewLead(data, body) ==
    [initialScore |-> body[2].initialScore,
     rerankedScore |-> body[2].rerankedScore] @@ data

-----------------------------------------------------------------------------
(* App *)

\* handleLeadSubmit putting the new record first: [leadData, ...prev]
handleLeadSubmitPrepend(prev, leadData) == <<leadData>> \o prev

\* setLeads((prev) => [...prev, leadData])
handleLeadSubmit(prev, leadData) == Append(prev, leadData)

-----------------------------------------------------------------------------
(* LeadsTable *)

\* getScoreTag with score > 70 for High
getScoreTagStrict(score) ==
    IF score = Null \/ score = Undefined THEN "N/A"
    ELSE IF score[2] > 70 THEN "High"
    ELSE IF score[2] >= 40 THEN "Mid"
    ELSE "Low"

\* the text of the <span> that getScoreTag returns
getScoreTag(score) ==
    IF score = Null \/ score = Undefined THEN "N/A"
    ELSE IF score[2] >= 70 THEN "High"
    ELSE IF score[2] >= 40 THEN "Mid"
    ELSE "Low"

headers ==
    << Str("Phone"), Str("Email"), Str("Credit Score"), Str("Age Group"),
       Str("Marital Status"), Str("Comments"), Str("Consent"),
       Str("Initial Score"), Str("Reranked Score") >>

\* a || b, for a score
FalsyOr(v, d) == IF IsNullish(v) \/ v = Num(0) THEN d ELSE v

\* CsvRow with || in the place of ??
CsvRowOr(lead) ==
    << Str(lead.phone),
       Str(lead.email),
       Str(lead.creditScore),
       Str(lead.ageGroup),
       Str(lead.maritalStatus),
       Str("\"" \o lead.comments \o "\""),
       IF lead.consent THEN Str("Yes") ELSE Str("No"),
       FalsyOr(lead.initialScore, Str("N/A")),
       FalsyOr(lead.rerankedScore, Str("N/A")) >>

\* the array that leads.map builds of one lead
CsvRow(lead) ==
    << Str(lead.phone),
       Str(lead.email),
       Str(lead.creditScore),
       Str(lead.ageGroup),
       Str(lead.maritalStatus),
       Str("\"" \o lead.comments \o "\""),
       IF lead.consent THEN Str("Yes") ELSE Str("No"),
       NullishOr(lead.initialScore, Str("N/A")),
       NullishOr(lead.rerankedScore, Str("N/A")) >>

\* const rows = leads.map(...)
CsvRows(list) == [i \in 1..Len(list) |-> CsvRow(list[i])]

\* [headers, ...rows].map((row) => row.join(",")).join("\n")
CsvContent(list) ==
    LET all == <<headers>> \o CsvRows(list)
    IN  JoinLines([i \in 1..Len(all) |-> JoinRow(all[i])])

NoDownload == [filename |-> "", content |-> ""]

-----------------------------------------------------------------------------
(* The state after the first render *)

InitApp ==
    /\ leads = <<>>
    /\ formData = EmptyForm
    /\ formToast = FALSE
    /\ formTimers = 0
    /\ inflight = {}
    /\ nextId = 1
    /\ tableToast = FALSE
    /\ tableTimers = 0
    /\ download = NoDownload
    /\ alertMsg = "none"
    /\ scored = <<>>

Init ==
    /\ InitApp
    /\ tagScore = Undefined
    /\ tagShown = ""

-----------------------------------------------------------------------------
(* Handlers and callbacks *)

\* onChange of one input: update-field(name, value)
UpdateField(name, value) ==
    /\ formData' = SetField(formData, name, value)
    /\ UNCHANGED <<leads, formToast, formTimers, inflight, nextId, tableToast,
                   tableTimers, download, alertMsg, scored, tagVars>>

\* handleSubmit resetting the draft when the consent check fails
HandleSubmitClearsDraft ==
    IF ~formData.consent
    THEN /\ alertMsg' = "consent"
         /\ formData' = EmptyForm
         /\ UNCHANGED <<leads, formToast, formTimers, inflight, nextId,
                        tableToast, tableTimers, download, scored, tagVars>>
    ELSE /\ nextId <= MaxSubmits
         /\ inflight' = inflight \cup {[id |-> nextId, data |-> formData]}
         /\ nextId' = nextId + 1
         /\ UNCHANGED <<leads, formData, formToast, formTimers, tableToast,
                        tableTimers, download, alertMsg, scored, tagVars>>

\* handleSubmit without its consent check
HandleSubmitNoConsentCheck ==
    /\ nextId <= MaxSubmits
    /\ inflight' = inflight \cup {[id |-> nextId, data |-> formData]}
    /\ nextId' = nextId + 1
    /\ UNCHANGED <<leads, formData, formToast, formTimers, tableToast,
                   tableTimers, download, alertMsg, scored, tagVars>>

\* handleSubmit returning at once while a scoring call is pending
HandleSubmitExclusive ==
    IF ~formData.consent
    THEN /\ alertMsg' = "consent"
         /\ UNCHANGED <<leads, formData, formToast, formTimers, inflight,
                        nextId, tableToast, tableTimers, download, scored,
                        tagVars>>
    ELSE /\ nextId <= MaxSubmits
         /\ inflight = {}
         /\ inflight' = inflight \cup {[id |-> nextId, data |-> formData]}
         /\ nextId' = nextId + 1
         /\ UNCHANGED <<leads, formData, formToast, formTimers, tableToast,
                        tableTimers, download, alertMsg, scored, tagVars>>

\* handleSubmit up to its await: the consent check, then axios.post with the
\* draft of this render
HandleSubmit ==
    IF ~formData.consent
    THEN /\ alertMsg' = "consent"
         /\ UNCHANGED <<leads, formData, formToast, formTimers, inflight,
                        nextId, tableToast, tableTimers, download, scored,
                        tagVars>>
    ELSE /\ nextId <= MaxSubmits
         /\ inflight' = inflight \cup {[id |-> nextId, data |-> formData]}
         /\ nextId' = nextId + 1
         /\ UNCHANGED <<leads, formData, formToast, formTimers, tableToast,
                        tableTimers, download, alertMsg, scored, tagVars>>

\* the catch block resetting the draft
SubmitCatchResets ==
    /\ alertMsg' = "error"
    /\ formData' = EmptyForm
    /\ UNCHANGED <<leads, formToast, formTimers, scored>>

\* the catch block
SubmitCatch ==
    /\ alertMsg' = "error"
    /\ UNCHANGED <<leads, formData, formToast, formTimers, scored>>

\* the try block building the record of the draft as it is when the call
\* returns
SubmitTryCurrentDraft(req, body) ==
    IF DestructureThrows(body)
    THEN SubmitCatch
    ELSE /\ leads' = handleLeadSubmit(leads, NewLead(formData, body))
         /\ formToast' = TRUE
         /\ formTimers' = formTimers + 1
         /\ formData' = EmptyForm
         /\ scored' = Append(scored, [id |-> req.id, data |-> req.data,
                                      body |-> body[2]])
         /\ UNCHANGED alertMsg

\* the try block after the await, the response being a 2xx answer
SubmitTry(req, body) ==
    IF DestructureThrows(body)
    THEN SubmitCatch
    ELSE /\ leads' = handleLeadSubmit(leads, NewLead(req.data, body))
         /\ formToast' = TRUE
         /\ formTimers' = formTimers + 1
         /\ formData' = EmptyForm
         /\ scored' = Append(scored, [id |-> req.id, data |-> req.data,
                                      body |-> body[2]])
         /\ UNCHANGED alertMsg

\* handleSubmit from its await on: the request req settles with outcome
SubmitSettles(req, outcome) ==
    /\ req \in inflight
    /\ inflight' = inflight \ {req}
    /\ IF outcome[1] = "ok" THEN SubmitTry(req, outcome[2])
                            ELSE SubmitCatch
    /\ UNCHANGED <<nextId, tableToast, tableTimers, download, tagVars>>

\* () => setShowToast(false) of LeadForm, 2000 ms after it was scheduled
FormTimerFires ==
    /\ formTimers > 0
    /\ formTimers' = formTimers - 1
    /\ formToast' = FALSE
    /\ UNCHANGED <<leads, formData, inflight, nextId, tableToast, tableTimers,
                   download, alertMsg, scored, tagVars>>

\* exportToCSV
ExportToCSV ==
    IF Len(leads) = 0
    THEN UNCHANGED vars
    ELSE /\ tableTimers < MaxTimers
         /\ download' = [filename |-> "leads_export.csv",
                         content |-> CsvContent(leads)]
         /\ tableToast' = TRUE
         /\ tableTimers' = tableTimers + 1
         /\ UNCHANGED <<leads, formData, formToast, formTimers, inflight,
                        nextId, alertMsg, scored, tagVars>>

\* () => setShowToast(false) of LeadsTable, 2000 ms after it was scheduled
TableTimerFires ==
    /\ tableTimers > 0
    /\ tableTimers' = tableTimers - 1
    /\ tableToast' = FALSE
    /\ UNCHANGED <<leads, formData, formToast, formTimers, inflight, nextId,
                   download, alertMsg, scored, tagVars>>

Next ==
    \/ \E in \in FieldInputs : UpdateField(in[1], in[2])
    \/ HandleSubmit
    \/ \E req \in inflight, outcome \in Outcomes : SubmitSettles(req, outcome)
    \/ FormTimerFires
    \/ ExportToCSV
    \/ TableTimerFires

Spec == Init /\ [][Next]_vars

-----------------------------------------------------------------------------
(* getScoreTag as LeadsTable applies it to a score of a rendered row *)

ScoreDomain ==
    {Null, Undefined} \cup {Num(n) : n \in (0 - MaxScoreMag)..MaxScoreMag}

InitScoreTag ==
    /\ InitApp
    /\ tagScore \in ScoreDomain
    /\ tagShown = ""

\* <td>{getScoreTag(lead.initialScore)}</td>
RenderTag ==
    /\ tagShown' = getScoreTag(tagScore)
    /\ UNCHANGED <<tagScore, appVars>>

\* the table is rendered with another score
NextScore ==
    /\ tagScore' \in ScoreDomain
    /\ tagShown' = ""
    /\ UNCHANGED appVars

NextScoreTag == RenderTag \/ NextScore

SpecScoreTag == InitScoreTag /\ [][NextScoreTag]_vars

-----------------------------------------------------------------------------
(* Steps, told apart by what they change *)

IsPrefix(s, t) == Len(s) <= Len(t) /\ SubSeq(t, 1, Len(s)) = s

Last(s) == s[Len(s)]

TextFields ==
    {"phone", "email", "creditScore", "ageGroup", "maritalStatus", "comments",
     "annualIncome", "netWorth", "employmentStatus"}

FormFields == TextFields \cup {"consent"}

\* a scoring call returned scores
SubmitSucceeded == Len(scored') = Len(scored) + 1

\* a scoring call settled without scores
SubmitFailed ==
    inflight' # inflight /\ inflight' \subseteq inflight /\ scored' = scored

\* a submit stopped at the consent check
SubmitBlocked == alertMsg' = "consent" /\ alertMsg # "consent"

\* a submit passed the consent check and posted the draft
SubmitStarted == nextId' = nextId + 1

\* an export handed a file to the browser
Exported == tableTimers' = tableTimers + 1

\* the one request that left inflight in this step
Settled == CHOOSE req \in inflight : req \notin inflight'

-----------------------------------------------------------------------------
(* Claims *)

\* C1: a submit whose draft has consent and whose scoring call returns
\* scores appends exactly one record, at the end of leads, with the scores of
\* the response, and leaves the draft in the initial empty state.
C1_SubmitAppendsScoredRecord ==
    [][SubmitSucceeded =>
          /\ Settled.data.consent
          /\ Len(leads') = Len(leads) + 1
          /\ SubSeq(leads', 1, Len(leads)) = leads
          /\ Last(leads').initialScore = Last(scored').body.initialScore
          /\ Last(leads').rerankedScore = Last(scored').body.rerankedScore
          /\ \A f \in TextFields : formData'[f] = ""
          /\ formData'.consent = FALSE]_vars

C1_Witness ==
    /\ Len(leads) = 1
    /\ leads[1].phone = "A"
    /\ leads[1].initialScore = Num(80)
    /\ leads[1].rerankedScore = Null
    /\ formData.phone = ""
    /\ ~formData.consent

\* C2: with consent false in the draft a submit starts no scoring call, so
\* no record comes of it, and the step it takes changes neither leads nor the
\* draft.
C2_NoConsentNoRecord ==
    [][/\ ~formData.consent => nextId' = nextId /\ inflight' \subseteq inflight
       /\ SubmitBlocked =>
             /\ ~formData.consent
             /\ leads' = leads
             /\ formData' = formData
             /\ inflight' = inflight]_vars

C2_Witness ==
    /\ alertMsg = "consent"
    /\ formData.phone = "A"
    /\ ~formData.consent
    /\ leads = <<>>
    /\ nextId = 1

\* C3: a scoring call that fails leaves leads and the draft as they were.
C3_FailureKeepsLeadsAndDraft ==
    [][SubmitFailed => leads' = leads /\ formData' = formData]_vars

C3_Witness ==
    /\ alertMsg = "error"
    /\ nextId = 2
    /\ inflight = {}
    /\ leads = <<>>
    /\ formData.phone = "A"
    /\ formData.consent

\* C4: every record of leads has consent true and the scores of a scoring
\* call that returned them for its own submission; calls that failed and
\* submits stopped at the consent check left no record.
C4_OnlyConsentedScoredLeads ==
    /\ Len(leads) = Len(scored)
    /\ Len(leads) + Cardinality(inflight) <= nextId - 1
    /\ \A i \in 1..Len(leads) :
          /\ leads[i].consent = TRUE
          /\ scored[i].data.consent = TRUE
          /\ leads[i].initialScore = scored[i].body.initialScore
          /\ leads[i].rerankedScore = scored[i].body.rerankedScore
          /\ scored[i].id \in 1..(nextId - 1)
          /\ \A req \in inflight : req.id # scored[i].id
          /\ \A j \in 1..Len(leads) : scored[i].id = scored[j].id => i = j

C4_Witness ==
    /\ Len(leads) = 2
    /\ leads[1].initialScore = Undefined
    /\ leads[2].initialScore = Num(80)
    /\ alertMsg = "consent"

\* C5: leads only grows at its end, and its records stand in the order in
\* which their scoring calls returned.
C5_AppendOnlyInCompletionOrder ==
    [][/\ IsPrefix(leads, leads')
       /\ Len(leads') = Len(scored')
       /\ \A i \in 1..Len(leads') :
             \A f \in FormFields : leads'[i][f] = scored'[i].data[f]
       /\ SubmitSucceeded =>
             /\ Last(scored').id = Settled.id
             /\ leads' = Append(leads, Last(leads'))]_vars

C5_Witness ==
    /\ Len(leads) = 2
    /\ scored[1].id = 1
    /\ scored[2].id = 2
    /\ leads[1].phone = ""
    /\ leads[2].phone = "A"

\* C6: getScoreTag gives N/A for null and undefined, High from 70 up, Mid
\* from 40 up to 70 exclusive and Low below 40: one of the four for every
\* score, 70 being High and 40 being Mid.
C6_ScoreTagCategories ==
    /\ getScoreTag(Num(70)) = "High"
    /\ getScoreTag(Num(69)) = "Mid"
    /\ getScoreTag(Num(40)) = "Mid"
    /\ getScoreTag(Num(39)) = "Low"
    /\ getScoreTag(Undefined) = "N/A"
    /\ tagShown # "" =>
          /\ tagShown \in {"N/A", "High", "Mid", "Low"}
          /\ tagShown = "N/A" <=> tagScore \in {Null, Undefined}
          /\ tagScore \notin {Null, Undefined} =>
                /\ tagShown = "High" <=> tagScore[2] >= 70
                /\ tagShown = "Mid" <=> (40 <= tagScore[2] /\ tagScore[2] < 70)
                /\ tagShown = "Low" <=> tagScore[2] < 40

C6_Witness == tagScore = Num(70) /\ tagShown = "High"

HeaderLine ==
    "Phone,Email,Credit Score,Age Group,Marital Status,Comments,Consent,"
    \o "Initial Score,Reranked Score"

\* a score as the document shows it
ScoreText(v) == IF v \in {Null, Undefined} THEN "N/A" ELSE ToString(v[2])

\* the line of one record
RowLine(lead) ==
    lead.phone \o "," \o lead.email \o "," \o lead.creditScore \o ","
    \o lead.ageGroup \o "," \o lead.maritalStatus \o ","
    \o "\"" \o lead.comments \o "\"" \o ","
    \o (IF lead.consent THEN "Yes" ELSE "No") \o ","
    \o ScoreText(lead.initialScore) \o "," \o ScoreText(lead.rerankedScore)

RECURSIVE Document(_)
\* the header line, then the line of every record, in order
Document(list) ==
    IF Len(list) = 0 THEN HeaderLine
    ELSE Document(SubSeq(list, 1, Len(list) - 1)) \o "\n"
         \o RowLine(Last(list))

\* the record of the example of the export
ExampleLead ==
    [phone |-> "A", email |-> "a@x.com", creditScore |-> "700",
     ageGroup |-> "18-25", maritalStatus |-> "Single", comments |-> "hi",
     consent |-> TRUE, initialScore |-> Num(80), rerankedScore |-> Null,
     annualIncome |-> "1", netWorth |-> "1", employmentStatus |-> "Employed"]

\* C7: an export of no records downloads nothing and shows no indicator; an
\* export of records downloads the header line followed by one line a
\* record, in the order of leads, each of phone, email, creditScore,
\* ageGroup, maritalStatus, the comments in double quotes, Yes or No for
\* consent, and each score or N/A; no export changes leads.
C7_ExportDocument ==
    /\ CsvContent(<<ExampleLead>>)
          = HeaderLine \o "\nA,a@x.com,700,18-25,Single,\"hi\",Yes,80,N/A"
    /\ [][/\ Len(leads) = 0 =>
                /\ download' = download
                /\ tableToast' = tableToast
                /\ tableTimers' = tableTimers
          /\ (Exported \/ download' # download) =>
                /\ Len(leads) > 0
                /\ leads' = leads
                /\ Len(CsvRows(leads)) = Len(leads)
                /\ \A i \in 1..Len(leads) : Len(CsvRows(leads)[i]) = 9
                /\ download'.filename = "leads_export.csv"
                /\ download'.content = Document(leads)
                /\ tableToast']_vars

C7_Witness ==
    /\ Len(leads) = 2
    /\ tableToast
    /\ download.content
          = HeaderLine \o "\nA,,,,,\"\",Yes,80,N/A\n,,,,,\"\",Yes,N/A,0"

\* C8 as stated: never more than one scoring call pending.
C8_AtMostOneInFlight == Cardinality(inflight) <= 1

\* C8: a pending scoring call does not keep a submit from starting another:
\* whenever the draft has consent, pending calls or not, a submit posts the
\* draft as one more request.
C8_SubmitNotExclusive ==
    (formData.consent /\ nextId <= MaxSubmits) =>
        ENABLED (/\ HandleSubmit
                 /\ inflight' = inflight \cup
                                  {[id |-> nextId, data |-> formData]}
                 /\ Cardinality(inflight') = Cardinality(inflight) + 1)

C8_Witness ==
    /\ Cardinality(inflight) = 2
    /\ \A req \in inflight : req.data.consent

\* C9 as stated: an indicator that is showing is hidden only by the timer of
\* the operation that showed it last, so when no later timer is pending; and
\* it is shown only by a submit that succeeded or an export of records.
C9_ShowWaitHide ==
    [][/\ (formToast /\ ~formToast') => formTimers' = 0
       /\ (tableToast /\ ~tableToast') => tableTimers' = 0
       /\ (~formToast /\ formToast') => SubmitSucceeded
       /\ (~tableToast /\ tableToast') => (Exported /\ Len(leads) > 0)]_vars

\* C10: the record of a successful submit has the fields the draft had when
\* the submit posted it; what update-field changed meanwhile is not in the
\* record, is dropped by the reset on success and stays in the draft on
\* failure.
C10_RecordOfDraftAtSubmit ==
    [][/\ SubmitStarted =>
             inflight' = inflight \cup {[id |-> nextId, data |-> formData]}
       /\ inflight' \subseteq
             inflight \cup {[id |-> nextId, data |-> formData]}
       /\ SubmitSucceeded =>
             /\ \A f \in FormFields : Last(leads')[f] = Settled.data[f]
             /\ formData' = EmptyForm
       /\ SubmitFailed => formData' = formData]_vars

C10_Witness ==
    /\ Len(leads) = 2
    /\ scored[1].id = 2
    /\ scored[2].id = 1
    /\ leads[1].phone = "A"
    /\ leads[2].phone = ""

=============================================================================
